---- MODULE Spec2Model ----
(***************************************************************************)
(* RecursiveMemoize (scripts/spec_tools/algo.py): a function modelled as a *)
(* dictionary computed on the fly.  __getitem__ is not atomic: it calls    *)
(* the subclass's compute(), which may call __getitem__ again, so a lookup *)
(* is modelled by the steps between which other lookups can run:           *)
(*   - the hit path (lines 54-63), one step;                               *)
(*   - the miss path up to the call of compute (lines 65-68), one step     *)
(*     that pushes a frame;                                                *)
(*   - compute returning, with the memoizing store (lines 68-72);          *)
(*   - an error leaving compute and __getitem__ (line 68, no handler).     *)
(* compute() is the subclass's code: the running compute may look up any   *)
(* key, return any value (None included, which the docstring forbids),     *)
(* raise, or catch an error raised by a lookup it made.                    *)
(***************************************************************************)
EXTENDS Integers, Sequences, FiniteSets, TLC

\* ---- bounds of the model ----
MaxKey == 2
MaxVal == 2
MaxIter == 2
MaxCount == 2
MaxFact == 4

Keys == 0..MaxKey
Values == 1..MaxVal
NoKey == MaxKey + 1
MaxDepth == MaxKey + MaxFact + 2

\* Python's None: the "we're computing this" sentinel.
None == 0

VARIABLES
    permit_cycles,  \* self.permit_cycles
    d,              \* self.d: a function whose DOMAIN is the keys present
    key_iterable,   \* the constructor's key_iterable, as a sequence
    phase,          \* "constructing", "ready" (constructed), "failed" (__init__ raised)
    idx,            \* position of the for loop of __init__ in key_iterable
    stack,          \* the active compute() frames, outermost first
    exc,            \* the exception in flight
    ret,            \* the most recent __getitem__ outcome seen by its caller
    computeCount,   \* how many times compute(k) was invoked
    failed,         \* keys whose compute() was left by an exception
    noneReturned,   \* keys whose compute() returned None
    topLog,         \* keys looked up by __init__, in the order it did
    snap,           \* what get_dict() returned, when it was the last thing called
    other,          \* a second instance of the class: its flag and its mapping
    asked           \* keys whose compute() has made its one lookup (factorial rule)

\* the state that the steps of one instance's lookups leave alone
aux == <<snap, other, asked>>

vars == <<permit_cycles, d, key_iterable, phase, idx, stack, exc, ret,
          computeCount, failed, noneReturned, topLog, snap, other, asked>>

NoExc == [kind |-> "none", key |-> NoKey]
NoRet == [kind |-> "none", key |-> NoKey, val |-> None]

KeySeqs == UNION {[1..n -> Keys] : n \in 0..MaxIter}

\* get_dict() not called since the last step of a lookup
NoSnap == [taken |-> FALSE, contents |-> <<>>]
\* no second instance constructed
NoOther == [state |-> "none", permit_cycles |-> FALSE, d |-> <<>>]

\* ---- the pieces of __getitem__ ----

InStoreNever(dd, k) == FALSE
InStoreResolvedOnly(dd, k) == k \in DOMAIN dd /\ dd[k] # None
\* line 54: key in self.d
InStore(dd, k) == k \in DOMAIN dd

HitRaisesNever(k) == FALSE
HitRaisesAlways(k) == d[k] = None
\* line 58: ret is None and not self.permit_cycles
HitRaises(k) == d[k] = None /\ ~permit_cycles

HitResultNone(k) == None
\* lines 55, 63: ret = self.d[key]; return ret
HitResult(k) == d[k]

\* lines 59-60: RuntimeError("Cycle detected ... f(key) depends on itself")
CycleDetected(k) == [kind |-> "CycleDetected", key |-> k]

\* an error raised by the subclass's compute(key) itself
ComputeError(k) == [kind |-> "ComputeError", key |-> k]

\* dd with dd[k] = v, the key added when absent
Put(dd, k, v) == [x \in (DOMAIN dd) \cup {k} |-> IF x = k THEN v ELSE dd[x]]

\* line 66: self.d[key] = None
SetSentinel(dd, k) == Put(dd, k, None)

MemoizeDropped(dd, k, v) == dd
MemoizeUnlessNone(dd, k, v) ==
    IF v = None THEN [x \in (DOMAIN dd) \ {k} |-> dd[x]]
    ELSE [x \in (DOMAIN dd) \cup {k} |-> IF x = k THEN v ELSE dd[x]]
\* line 70: self.d[key] = ret
Memoize(dd, k, v) == Put(dd, k, v)

Idle == stack = <<>> /\ exc = NoExc

\* lines 54-68: __getitem__(k) up to its return, its raise, or its call of compute
GetItem(k) ==
    /\ IF InStore(d, k)
       THEN IF HitRaises(k)
            THEN /\ exc' = CycleDetected(k)
                 /\ UNCHANGED <<d, stack, ret, computeCount>>
            ELSE /\ ret' = [kind |-> "hit", key |-> k, val |-> HitResult(k)]
                 /\ UNCHANGED <<d, stack, exc, computeCount>>
       ELSE /\ Len(stack) < MaxDepth
            /\ computeCount[k] < MaxCount
            /\ d' = SetSentinel(d, k)
            /\ computeCount' = [computeCount EXCEPT ![k] = @ + 1]
            /\ stack' = Append([i \in 1..Len(stack) |->
                                  [stack[i] EXCEPT !.started = @ \cup {k}]],
                               [key |-> k, started |-> {k}])
            /\ UNCHANGED <<exc, ret>>
    /\ UNCHANGED <<permit_cycles, key_iterable, failed, noneReturned>>

\* ---- the callers of __getitem__ ----

CtorKeyFirst(i) == key_iterable[1]
CtorKeyReversed(i) == key_iterable[Len(key_iterable) + 1 - i]
\* line 45: the for loop takes the keys in the order of the iterable
CtorKey(i) == key_iterable[i]

\* lines 45-46: for key in key_iterable: _ = self[key]
CtorLookup ==
    /\ phase = "constructing" /\ Idle
    /\ idx <= Len(key_iterable)
    /\ GetItem(CtorKey(idx))
    /\ idx' = idx + 1
    /\ topLog' = Append(topLog, CtorKey(idx))
    /\ UNCHANGED phase

\* lines 43-46: the loop is over (or key_iterable is falsy): __init__ returns,
\* and its argument and loop position go with its frame
CtorDone ==
    /\ phase = "constructing" /\ Idle
    /\ idx > Len(key_iterable)
    /\ phase' = "ready"
    /\ key_iterable' = <<>>
    /\ idx' = 1
    /\ topLog' = <<>>
    /\ UNCHANGED <<permit_cycles, d, stack, exc, ret,
                   computeCount, failed, noneReturned>>

\* the owner of the constructed object calls self[k]
TopLookup(k) ==
    /\ phase = "ready" /\ Idle
    /\ GetItem(k)
    /\ UNCHANGED <<phase, idx, topLog>>

\* the running compute() calls self[k]
Reentrant(k) ==
    /\ stack # <<>> /\ exc = NoExc
    /\ GetItem(k)
    /\ UNCHANGED <<phase, idx, topLog>>

\* lines 68-72: compute(key) returns v; memoize and return
ComputeReturn(v) ==
    /\ stack # <<>> /\ exc = NoExc
    /\ LET f == stack[Len(stack)] IN
        /\ d' = Memoize(d, f.key, v)
        /\ ret' = [kind |-> "computed", key |-> f.key, val |-> v]
        /\ noneReturned' = IF v = None THEN noneReturned \cup {f.key} ELSE noneReturned
    /\ stack' = SubSeq(stack, 1, Len(stack) - 1)
    /\ UNCHANGED <<permit_cycles, key_iterable, phase, idx, exc,
                   computeCount, failed, topLog>>

\* the running compute(key) raises an error of its own
ComputeRaise ==
    /\ stack # <<>> /\ exc = NoExc
    /\ exc' = ComputeError(stack[Len(stack)].key)
    /\ UNCHANGED <<permit_cycles, d, key_iterable, phase, idx, stack, ret,
                   computeCount, failed, noneReturned, topLog>>

\* the running compute() catches the error (a try/except in the subclass)
ComputeCatch ==
    /\ stack # <<>> /\ exc # NoExc
    /\ exc' = NoExc
    /\ UNCHANGED <<permit_cycles, d, key_iterable, phase, idx, stack, ret,
                   computeCount, failed, noneReturned, topLog>>

PropagatedWrapped(e, k) == ComputeError(k)
\* line 68: no try around self.compute(key): the error leaves as it came
Propagated(e, k) == e

StoreAfterRaiseCleaned(dd, k) == [x \in (DOMAIN dd) \ {k} |-> dd[x]]
\* line 68: the error skips line 70, so self.d[key] stays None
StoreAfterRaise(dd, k) == dd

\* line 68: the error leaves compute(key) and with it __getitem__(key)
Unwind ==
    /\ stack # <<>> /\ exc # NoExc
    /\ LET f == stack[Len(stack)] IN
        /\ exc' = Propagated(exc, f.key)
        /\ d' = StoreAfterRaise(d, f.key)
        /\ failed' = failed \cup {f.key}
    /\ stack' = SubSeq(stack, 1, Len(stack) - 1)
    /\ UNCHANGED <<permit_cycles, key_iterable, phase, idx, ret,
                   computeCount, noneReturned, topLog>>

PhaseAfterRaiseContinue(p) == p
\* line 46: an error in self[key] leaves the for loop and __init__
PhaseAfterRaise(p) == IF p = "constructing" THEN "failed" ELSE p

\* the error reaches the caller of the outermost __getitem__
TopRaise ==
    /\ stack = <<>> /\ exc # NoExc
    /\ ret' = [kind |-> exc.kind, key |-> exc.key, val |-> None]
    /\ exc' = NoExc
    /\ phase' = PhaseAfterRaise(phase)
    /\ UNCHANGED <<permit_cycles, d, key_iterable, idx, stack,
                   computeCount, failed, noneReturned, topLog>>

\* lines 41-42: self.permit_cycles = permit_cycles; self.d = {}
Init ==
    /\ permit_cycles \in BOOLEAN
    /\ d = <<>>
    /\ key_iterable \in KeySeqs
    /\ phase = "constructing"
    /\ idx = 1
    /\ stack = <<>>
    /\ exc = NoExc
    /\ ret = NoRet
    /\ computeCount = [k \in Keys |-> 0]
    /\ failed = {}
    /\ noneReturned = {}
    /\ topLog = <<>>
    /\ snap = NoSnap
    /\ other = NoOther
    /\ asked = {}

Next ==
    \/ CtorLookup /\ UNCHANGED aux
    \/ CtorDone /\ UNCHANGED aux
    \/ \E k \in Keys : TopLookup(k) /\ UNCHANGED aux
    \/ \E k \in Keys : Reentrant(k) /\ UNCHANGED aux
    \/ \E v \in Values \cup {None} : ComputeReturn(v) /\ UNCHANGED aux
    \/ ComputeRaise /\ UNCHANGED aux
    \/ ComputeCatch /\ UNCHANGED aux
    \/ Unwind /\ UNCHANGED aux
    \/ TopRaise /\ UNCHANGED aux

Spec == Init /\ [][Next]_vars

\* ---- get_dict ----

GetDictResolvedOnly(dd) == [x \in {y \in DOMAIN dd : dd[y] # None} |-> dd[x]]
\* line 78: return self.d
GetDictResult(dd) == dd

\* lines 74-78: get_dict(), called by the owner or by the running compute()
GetDict ==
    /\ exc = NoExc
    /\ stack # <<>> \/ phase = "ready"
    /\ snap' = [taken |-> TRUE, contents |-> GetDictResult(d)]
    /\ UNCHANGED <<permit_cycles, d, key_iterable, phase, idx, stack, exc, ret,
                   computeCount, failed, noneReturned, topLog, other, asked>>

\* a step of a lookup: what get_dict() returned before it is out of date
Forget == snap' = NoSnap /\ UNCHANGED <<other, asked>>

\* RecursiveMemoize(permit_cycles=...) with no key_iterable
InitSnap == Init /\ key_iterable = <<>>

NextSnap ==
    \/ GetDict
    \/ CtorDone /\ Forget
    \/ \E k \in Keys : TopLookup(k) /\ Forget
    \/ \E k \in Keys : Reentrant(k) /\ Forget
    \/ \E v \in Values \cup {None} : ComputeReturn(v) /\ Forget
    \/ ComputeRaise /\ Forget
    \/ ComputeCatch /\ Forget
    \/ Unwind /\ Forget
    \/ TopRaise /\ Forget

SpecSnap == InitSnap /\ [][NextSnap]_vars

\* ---- the factorial rule: compute(n) = 1 if n == 0 else n * self[n - 1] ----

FactKeys == 0..MaxFact
FactSeqs == UNION {[1..n -> FactKeys] : n \in 0..MaxIter}

\* the value compute(n) returns, r being what its self[n - 1] returned
FactResult(n, r) == IF n = 0 THEN 1 ELSE n * r

\* compute(n), n # 0, evaluates self[n - 1]
FactAsk ==
    /\ stack # <<>>
    /\ LET n == stack[Len(stack)].key IN
        /\ n # 0 /\ n \notin asked
        /\ Reentrant(n - 1)
        /\ asked' = asked \cup {n}
    /\ UNCHANGED <<snap, other>>

\* compute(n) returns: 1 for n = 0, else n times what self[n - 1] returned
FactReturn ==
    /\ stack # <<>>
    /\ LET n == stack[Len(stack)].key IN
        /\ n = 0 \/ n \in asked
        /\ ComputeReturn(FactResult(n, ret.val))
    /\ UNCHANGED aux

\* lines 41-42, the keys being the naturals the rule is defined on
InitFact ==
    /\ permit_cycles \in BOOLEAN
    /\ d = <<>>
    /\ key_iterable \in FactSeqs
    /\ phase = "constructing"
    /\ idx = 1
    /\ stack = <<>>
    /\ exc = NoExc
    /\ ret = NoRet
    /\ computeCount = [k \in FactKeys |-> 0]
    /\ failed = {}
    /\ noneReturned = {}
    /\ topLog = <<>>
    /\ snap = NoSnap
    /\ other = NoOther
    /\ asked = {}

NextFact ==
    \/ CtorLookup /\ UNCHANGED aux
    \/ CtorDone /\ UNCHANGED aux
    \/ \E n \in FactKeys : TopLookup(n) /\ UNCHANGED aux
    \/ FactAsk
    \/ FactReturn

SpecFact == InitFact /\ [][NextFact]_vars

\* ---- a second instance ----

TwoKeys == 0..(MaxKey - 1)
\* the keys the second instance is asked for
OtherKeys == 0..(MaxKey - 2)
TwoValues == 1..(MaxVal - 1)
TwoSeqs == UNION {[1..n -> TwoKeys] : n \in 0..(MaxIter - 1)}

NewDictShared == "shared"
\* line 42: self.d = {} makes a dictionary of the instance's own ("own"), not
\* one that every instance refers to ("shared")
NewDict == "own"

\* the mapping the second instance's self.d refers to
OtherMapping == IF other.state = "shared" THEN d ELSE other.d

\* lines 41-42: the second instance is constructed
OtherNew(p) ==
    /\ other.state = "none" /\ exc = NoExc
    /\ other' = [state |-> NewDict, permit_cycles |-> p, d |-> <<>>]
    /\ snap' = NoSnap
    /\ UNCHANGED <<permit_cycles, d, key_iterable, phase, idx, stack, exc, ret,
                   computeCount, failed, noneReturned, topLog, asked>>

\* lines 54-72 on the second instance, for a key it does not hold and a
\* compute() that looks nothing up: the sentinel is written, then the value
\* v that compute returned (a compute that raises leaves what v = None does);
\* a lookup of a key it holds writes nothing
OtherLookup(k, v) ==
    /\ other.state # "none" /\ exc = NoExc
    /\ ~InStore(OtherMapping, k)
    /\ LET m == Memoize(SetSentinel(OtherMapping, k), k, v) IN
         IF other.state = "shared"
         THEN d' = m /\ UNCHANGED other
         ELSE other' = [other EXCEPT !.d = m] /\ UNCHANGED d
    /\ snap' = NoSnap
    /\ UNCHANGED <<permit_cycles, key_iterable, phase, idx, stack, exc, ret,
                   computeCount, failed, noneReturned, topLog, asked>>

\* lines 41-42 for the first instance
InitTwo ==
    /\ permit_cycles \in BOOLEAN
    /\ d = <<>>
    /\ key_iterable \in TwoSeqs
    /\ phase = "constructing"
    /\ idx = 1
    /\ stack = <<>>
    /\ exc = NoExc
    /\ ret = NoRet
    /\ computeCount = [k \in Keys |-> 0]
    /\ failed = {}
    /\ noneReturned = {}
    /\ topLog = <<>>
    /\ snap = NoSnap
    /\ other = NoOther
    /\ asked = {}

NextTwo ==
    \/ \E p \in BOOLEAN : OtherNew(p)
    \/ \E k \in OtherKeys, v \in TwoValues \cup {None} : OtherLookup(k, v)
    \/ GetDict
    \/ CtorLookup /\ Forget
    \/ CtorDone /\ Forget
    \/ \E k \in TwoKeys : TopLookup(k) /\ Forget
    \/ \E k \in TwoKeys : Reentrant(k) /\ Forget
    \/ \E v \in TwoValues \cup {None} : ComputeReturn(v) /\ Forget
    \/ ComputeRaise /\ Forget
    \/ ComputeCatch /\ Forget
    \/ Unwind /\ Forget
    \/ TopRaise /\ Forget

SpecTwo == InitTwo /\ [][NextTwo]_vars

\* ---- vocabulary of the properties ----

InProgressIn(dd, k) == k \in DOMAIN dd /\ dd[k] = None
ResolvedIn(dd, k) == k \in DOMAIN dd /\ dd[k] # None
InProgress(k) == InProgressIn(d, k)
Resolved(k) == ResolvedIn(d, k)

\* this step is an invocation of __getitem__, known by its outcome: it pushed
\* a frame for compute(), raised CycleDetected, or returned a stored value
\* (a step of the constructor's loop is one even when it returns what the
\* lookup before it returned)
LookupStep ==
    \/ Len(stack') > Len(stack)
    \/ exc = NoExc /\ exc'.kind = "CycleDetected"
    \/ ret' # ret /\ ret'.kind = "hit"
    \/ Len(topLog') > Len(topLog)

\* the key this step's invocation of __getitem__ was given, read off its outcome:
\* the frame it pushed, the error it raised, or the value it returned
CalledKey ==
    IF Len(stack') > Len(stack) THEN stack'[Len(stack')].key
    ELSE IF exc' # NoExc THEN exc'.key
    ELSE ret'.key

\* this step is a return of compute() into line 70
ReturnStep == stack # <<>> /\ exc = NoExc /\ Len(stack') < Len(stack)

\* this step is an error leaving a __getitem__ whose compute() it came out of
UnwindStep == stack # <<>> /\ exc # NoExc /\ Len(stack') < Len(stack)

\* the invocation changes nothing but the caller's view of its outcome
StoreUntouched == d' = d /\ computeCount' = computeCount /\ stack' = stack

\* ---- C1 ----
\* C1: compute is invoked for every key at most once in the store's lifetime,
\* whatever lookups were made and whether or not computations raised or cycles
\* were detected; a lookup of a key already present never starts a computation.
C1_ComputeAtMostOnce ==
    [][ /\ \A k \in Keys : computeCount'[k] <= 1
        /\ \A k \in Keys : computeCount'[k] # computeCount[k] => k \notin DOMAIN d ]_vars

\* a poisoned key and a resolved key, each computed once, and a later lookup of
\* the resolved one answered from the store
C1_Witness ==
    \E k \in Keys, j \in Keys :
        /\ j \in failed /\ computeCount[j] = 1
        /\ Resolved(k) /\ computeCount[k] = 1
        /\ ret = [kind |-> "hit", key |-> k, val |-> d[k]]
        /\ Idle

\* ---- C2 ----
\* C2: a lookup of a resolved key, top-level or reentrant, under either
\* permit_cycles setting, returns the stored value, raises nothing, invokes no
\* compute and leaves the store as it was.
C2_ResolvedHit ==
    [][ LookupStep =>
          LET k == CalledKey IN
            Resolved(k) =>
              /\ ret' = [kind |-> "hit", key |-> k, val |-> d[k]]
              /\ exc' = NoExc
              /\ StoreUntouched ]_vars

\* a reentrant lookup of a resolved key has just returned its value
C2_Witness ==
    /\ stack # <<>> /\ exc = NoExc
    /\ ret.kind = "hit" /\ Resolved(ret.key) /\ ret.val = d[ret.key]
    /\ ret.val \in Values
    /\ ret.key # stack[Len(stack)].key

\* ---- C3 ----
\* C3: with permit_cycles false, a lookup of a key in progress raises
\* CycleDetected naming that key, invokes no compute and leaves the store as
\* it was; an error that no compute catches leaves each enclosing lookup
\* unchanged, so it reaches the outermost caller as CycleDetected.
C3_CycleDetected ==
    [][ ~permit_cycles =>
          /\ LookupStep =>
               LET k == CalledKey IN
                 InProgress(k) =>
                   /\ exc' = CycleDetected(k)
                   /\ ret' = ret
                   /\ StoreUntouched
          /\ UnwindStep => exc' = exc ]_vars

\* compute(a) called lookup(b), compute(b) called lookup(a), which raised
C3_Witness ==
    /\ ~permit_cycles
    /\ Len(stack) = 2
    /\ stack[1].key # stack[2].key
    /\ exc = CycleDetected(stack[1].key)
    /\ computeCount[stack[1].key] = 1 /\ computeCount[stack[2].key] = 1

\* ---- C4 ----
\* C4: with permit_cycles true, a lookup of a key in progress returns None,
\* raises nothing, invokes no compute and leaves the store as it was; no
\* CycleDetected is ever raised, and when the outermost lookup is over and no
\* compute raised or returned None, every key requested is resolved.
C4_CyclePermitted ==
    [][ permit_cycles =>
          /\ LookupStep =>
               LET k == CalledKey IN
                 InProgress(k) =>
                   /\ ret' = [kind |-> "hit", key |-> k, val |-> None]
                   /\ exc' = NoExc
                   /\ StoreUntouched
          /\ exc'.kind # "CycleDetected"
          /\ (stack' = <<>> /\ exc' = NoExc /\ failed' = {} /\ noneReturned' = {})
               => \A k \in DOMAIN d' : d'[k] # None ]_vars

\* compute(a) called lookup(b), compute(b) called lookup(a), which returned None
C4_Witness ==
    /\ permit_cycles
    /\ Len(stack) = 2
    /\ stack[1].key # stack[2].key
    /\ exc = NoExc
    /\ ret = [kind |-> "hit", key |-> stack[1].key, val |-> None]

\* ---- C5 ----
\* C5: an error raised in compute(k) leaves lookup(k) unchanged, k stays in
\* progress ever after, and with permit_cycles false every later lookup(k)
\* raises CycleDetected(k) without invoking compute.
C5_PoisonedKey ==
    [][ /\ UnwindStep =>
             /\ exc' = exc
             /\ InProgressIn(d', stack[Len(stack)].key)
        /\ \A k \in failed : InProgress(k) /\ InProgressIn(d', k) /\ k \in failed'
        /\ (~permit_cycles /\ LookupStep) =>
             LET k == CalledKey IN
               k \in failed =>
                 /\ exc' = CycleDetected(k)
                 /\ StoreUntouched ]_vars

\* compute(k) raised, its caller saw that error, and a later lookup(k) has
\* just raised CycleDetected(k)
C5_Witness ==
    /\ ~permit_cycles /\ phase = "ready" /\ stack = <<>>
    /\ ret.kind = "ComputeError"
    /\ ret.key \in failed
    /\ exc = CycleDetected(ret.key)
    /\ computeCount[ret.key] = 1

\* ---- C6 ----
\* C6 as stated: when the lookup that started compute(k) returns (no compute
\* having returned None), k and every key whose computation started during
\* the call are resolved.
C6_AllStartedResolved ==
    [][ (ReturnStep /\ noneReturned' = {}) =>
          \A k \in stack[Len(stack)].started : ResolvedIn(d', k) ]_vars

\* C6 as amended: ... k is resolved, and every key whose computation started
\* during the call is resolved unless its compute() was left by an error
\* (which a compute() further out caught).
C6_StartedResolvedOrFailed ==
    [][ (ReturnStep /\ noneReturned' = {}) =>
          /\ ResolvedIn(d', stack[Len(stack)].key)
          /\ \A k \in stack[Len(stack)].started : ResolvedIn(d', k) \/ k \in failed' ]_vars

\* the first lookup ever, made by the constructor, has returned after starting
\* and resolving a second key
C6_Witness ==
    /\ phase = "constructing" /\ Idle
    /\ Len(topLog) = 1
    /\ ret = [kind |-> "computed", key |-> topLog[1], val |-> d[topLog[1]]]
    /\ Cardinality(DOMAIN d) >= 2
    /\ \A k \in DOMAIN d : Resolved(k)
    /\ failed = {} /\ noneReturned = {}

\* ---- C7 ----
\* C7 as stated (of a constructed store whose compute keeps to its contract
\* of never returning None): whenever no lookup is executing, no key of the
\* store is in progress.
C7_NoInProgressWhenIdle ==
    (phase = "ready" /\ Idle /\ noneReturned = {}) => \A k \in DOMAIN d : d[k] # None

\* C7 as amended: whenever no lookup is executing, the keys in progress are
\* exactly those whose compute() was left by an error or returned None; every
\* other key's in-progress state is seen by reentrant lookups only.
C7_InProgressWhenIdleIsPoisoned ==
    Idle => \A k \in DOMAIN d : d[k] = None => k \in failed \cup noneReturned

\* nothing is executing, one key is resolved and another is left in progress
\* by its compute() having raised
C7_Witness ==
    /\ Idle /\ phase = "ready" /\ noneReturned = {}
    /\ \E k \in failed : InProgress(k)
    /\ \E k \in Keys : Resolved(k)

\* ---- C8 ----
\* C8: an entry of the store is never removed, and the value of a resolved key
\* is never replaced by None or by another value.
C8_Monotone ==
    [][ \A k \in DOMAIN d :
          /\ k \in DOMAIN d'
          /\ d[k] # None => d'[k] = d[k] ]_vars

\* a resolved key, looked up again since, next to a key being computed
C8_Witness ==
    \E a \in Keys, b \in Keys :
        /\ Resolved(a) /\ InProgress(b)
        /\ stack # <<>> /\ stack[Len(stack)].key = b
        /\ ret = [kind |-> "hit", key |-> a, val |-> d[a]]
        /\ phase = "ready"

\* ---- C9 ----
\* C9: when the constructor's loop is over and no compute() raised (nor
\* returned None), every key of key_iterable, and every key of the store, is
\* resolved.
C9_EagerResolved ==
    (phase = "constructing" /\ Idle /\ idx > Len(key_iterable)
       /\ failed = {} /\ noneReturned = {})
    => /\ \A i \in 1..Len(key_iterable) : Resolved(key_iterable[i])
       /\ \A k \in DOMAIN d : Resolved(k)

\* the loop over two keys is over, and a third key was resolved on the way
C9_Witness ==
    /\ phase = "constructing" /\ Idle /\ idx > Len(key_iterable)
    /\ Len(key_iterable) = 2 /\ key_iterable[1] # key_iterable[2]
    /\ failed = {} /\ noneReturned = {}
    /\ Cardinality(DOMAIN d) = 3
    /\ \A k \in DOMAIN d : Resolved(k)

\* ---- C10 ----
\* C10: the constructor starts from an empty store and looks its keys up in
\* sequence order, each lookup starting when the one before is wholly over;
\* an error reaching it ends construction, and no later key is looked up.
C10_EagerOrder ==
    [][ /\ (phase' = "constructing" /\ topLog' = <<>>) => d' = <<>>
        /\ phase' \in {"constructing", "failed"} =>
             /\ Len(topLog') <= Len(key_iterable')
             /\ topLog' = SubSeq(key_iterable', 1, Len(topLog'))
        /\ Len(topLog') > Len(topLog) =>
             /\ Idle
             /\ Len(topLog') = Len(topLog) + 1
             /\ LookupStep /\ CalledKey = key_iterable[Len(topLog')]
        /\ (phase = "constructing" /\ stack = <<>> /\ exc # NoExc) =>
             phase' = "failed"
        /\ phase = "failed" => UNCHANGED <<topLog, d, stack, exc, ret, phase>> ]_vars

\* the lookup of the first of two keys raised: construction is over and the
\* second key was never looked up
C10_Witness ==
    /\ phase = "failed"
    /\ Len(key_iterable) = 2 /\ Len(topLog) = 1
    /\ key_iterable[2] \notin DOMAIN d

\* ---- C11 ----
\* C11: get_dict() returns contents equal to the store's mapping as it is at
\* the call, invokes no compute and changes nothing of the store; called
\* again with no lookup step in between, it returns the same contents.
C11_SnapshotPure ==
    [][ snap'.taken =>
          /\ snap'.contents = d
          /\ UNCHANGED <<permit_cycles, d, stack, exc, ret, computeCount,
                         failed, noneReturned, phase>> ]_vars

\* get_dict() called by a running compute(), the store holding a resolved key
\* and the key in progress
C11_Witness ==
    /\ snap.taken /\ snap.contents = d
    /\ stack # <<>>
    /\ \E a \in DOMAIN d, b \in DOMAIN d : d[a] # None /\ d[b] = None

\* ---- C12 ----
\* n!, the function the rule is meant to compute
RECURSIVE Factorial(_)
Factorial(n) == IF n = 0 THEN 1 ELSE n * Factorial(n - 1)

\* C12: under the factorial rule every lookup(n) returns n!, nothing raises,
\* compute is invoked exactly once for each key present, and whenever no
\* lookup is executing the store holds k -> k! for exactly the keys 0..m;
\* lookup(n) on the empty store resolves exactly 0..n, and lookup(4) on it
\* returns 24 and leaves 0->1, 1->1, 2->2, 3->6, 4->24.
C12_Factorial ==
    /\ exc = NoExc
    /\ \A k \in FactKeys : computeCount[k] = IF k \in DOMAIN d THEN 1 ELSE 0
    /\ ret.kind \in {"hit", "computed"} => ret.val = Factorial(ret.key)
    /\ Idle =>
         /\ \A k \in DOMAIN d : d[k] = Factorial(k)
         /\ d # <<>> => \E m \in FactKeys : DOMAIN d = 0..m
    /\ (phase = "constructing" /\ Idle /\ Len(topLog) = 1) =>
         /\ DOMAIN d = 0..topLog[1]
         /\ ret = [kind |-> "computed", key |-> topLog[1], val |-> Factorial(topLog[1])]
    /\ (phase = "constructing" /\ Idle /\ topLog = <<4>>) =>
         /\ ret.val = 24
         /\ d = (0 :> 1 @@ 1 :> 1 @@ 2 :> 2 @@ 3 :> 6 @@ 4 :> 24)

\* the first lookup on the empty store was lookup(4) and has returned 24
C12_Witness ==
    /\ phase = "constructing" /\ Idle /\ topLog = <<4>>
    /\ ret = [kind |-> "computed", key |-> 4, val |-> 24]
    /\ DOMAIN d = 0..4
    /\ \A k \in 0..4 : computeCount[k] = 1

\* ---- C13 ----
\* C13 as stated: after compute(k) returned None, the next lookup(k) returns
\* None and does not raise.
C13_SentinelReturnNeverRaises ==
    [][ LookupStep =>
          LET k == CalledKey IN
            k \in noneReturned =>
              /\ ret' = [kind |-> "hit", key |-> k, val |-> None]
              /\ exc' = NoExc ]_vars

\* C13 as amended: compute(k) returning None is not detected when it returns
\* (None is stored and returned, no error); the next lookup(k) invokes no
\* compute and changes nothing, returns None when permit_cycles is true, and
\* raises CycleDetected(k) when permit_cycles is false.
C13_SentinelReturn ==
    [][ /\ (ReturnStep /\ noneReturned' # noneReturned) =>
             LET k == stack[Len(stack)].key IN
               /\ exc' = NoExc
               /\ ret' = [kind |-> "computed", key |-> k, val |-> None]
               /\ InProgressIn(d', k)
        /\ LookupStep =>
             LET k == CalledKey IN
               k \in noneReturned =>
                 /\ StoreUntouched
                 /\ IF permit_cycles
                    THEN /\ ret' = [kind |-> "hit", key |-> k, val |-> None]
                         /\ exc' = NoExc
                    ELSE /\ exc' = CycleDetected(k)
                         /\ ret' = ret ]_vars

\* compute(k) returned None to the owner, whose next lookup(k) has just raised
C13_Witness ==
    /\ ~permit_cycles /\ phase = "ready" /\ stack = <<>>
    /\ ret.kind = "computed" /\ ret.val = None
    /\ ret.key \in noneReturned
    /\ exc = CycleDetected(ret.key)
    /\ computeCount[ret.key] = 1

\* ---- C14 ----
\* C14: with permit_cycles false, an error that the compute() it passes
\* through does not catch leaves that lookup unchanged and leaves its key in
\* progress, on the cycle or not; it reaches the caller of the outermost
\* lookup as raised; the keys so left stay in progress ever after, and every
\* later lookup of one raises CycleDetected naming it and invokes no compute.
C14_UncaughtPoisonsStack ==
    [][ ~permit_cycles =>
          /\ UnwindStep =>
               LET k == stack[Len(stack)].key IN
                 /\ exc' = exc
                 /\ d' = d
                 /\ k \in failed' /\ InProgressIn(d', k)
          /\ (stack = <<>> /\ exc # NoExc) =>
               /\ ret' = [kind |-> exc.kind, key |-> exc.key, val |-> None]
               /\ d' = d
          /\ \A k \in failed : k \in failed' /\ InProgressIn(d', k)
          /\ LookupStep =>
               LET k == CalledKey IN
                 k \in failed =>
                   /\ exc' = CycleDetected(k)
                   /\ StoreUntouched ]_vars

\* the first lookup ever, lookup(c), ended in CycleDetected(a), a # c, which
\* nothing caught: it is at the outermost caller, and three keys, c among
\* them, are left in progress
C14_Witness ==
    /\ ~permit_cycles /\ phase = "constructing" /\ stack = <<>>
    /\ Len(topLog) = 1
    /\ exc.kind = "CycleDetected" /\ exc.key # topLog[1]
    /\ Cardinality(failed) = 3 /\ topLog[1] \in failed
    /\ DOMAIN d = failed
    /\ \A k \in failed : InProgress(k) /\ computeCount[k] = 1

\* ---- C15 ----
\* C15: with permit_cycles true no lookup ever raises CycleDetected, and a
\* lookup of a key whose compute() was left by an error returns None, raises
\* nothing, invokes no compute and changes nothing.
C15_PermitNeverCycleError ==
    [][ permit_cycles =>
          /\ exc'.kind # "CycleDetected"
          /\ ret'.kind # "CycleDetected"
          /\ LookupStep =>
               LET k == CalledKey IN
                 k \in failed =>
                   /\ ret' = [kind |-> "hit", key |-> k, val |-> None]
                   /\ exc' = NoExc
                   /\ StoreUntouched ]_vars

\* the owner's lookup of a poisoned key has returned None
C15_Witness ==
    /\ permit_cycles /\ phase = "ready" /\ Idle
    /\ ret.kind = "hit" /\ ret.val = None
    /\ ret.key \in failed
    /\ computeCount[ret.key] = 1

\* ---- C16 ----
\* C16: no step changes the permit_cycles flag of a constructed instance; a
\* step of one instance (its eager lookups, lookups, get_dict and compute
\* steps) leaves the other instance's mapping as it was, and a step of the
\* other instance leaves this one's mapping and lookups as they were.
C16_Isolation ==
    [][ /\ permit_cycles' = permit_cycles
        /\ other.state # "none" =>
             /\ other'.permit_cycles = other.permit_cycles
             /\ other'.state = other.state
             /\ other' = other => OtherMapping' = OtherMapping
        /\ other' # other =>
             UNCHANGED <<d, stack, exc, ret, computeCount, failed,
                         noneReturned, phase, idx>> ]_vars

\* both instances hold entries, with different flags and different values
\* for a key, while a compute() of the first is running
C16_Witness ==
    /\ other.state = "own"
    /\ other.permit_cycles # permit_cycles
    /\ stack # <<>>
    /\ \E k \in DOMAIN d \cap DOMAIN other.d : Resolved(k) /\ other.d[k] # d[k]
    /\ DOMAIN d # DOMAIN other.d

====
